---------------------------- MODULE Spec2Model ----------------------------
(***************************************************************************)
(* fluss: an IPFIX collector.  The model covers the packet parser          *)
(* (src/ipfix/parser.rs), the session / template cache                     *)
(* (src/ipfix/session.rs), the flow projector (src/produce/ipfix.rs), the  *)
(* value decoders it uses (src/protocol.rs) and the receive loop of        *)
(* src/main.rs.                                                            *)
(*                                                                         *)
(* Datagrams are byte sequences; the parser operators work on the bytes.   *)
(* A panic (assert_eq!, unwrap on None/Err, chunks(0), arithmetic          *)
(* overflow under overflow checks) is the outcome "Panic", distinct from   *)
(* an error value "Error".                                                 *)
(***************************************************************************)
EXTENDS Integers, Sequences, FiniteSets, TLC

VARIABLES
    overflowChecks, \* build profile: TRUE when u16 arithmetic overflow panics (debug), FALSE when it wraps (release)
    templates,      \* Session.templates: template id -> field list
    pc,             \* position of main: "recv", "iter", "publish", "loopend", "exited", "panicked"
    buf,            \* &buf[0..len]: the bytes of the datagram being handled
    parsed,         \* outcome of fluss::ipfix::parse on buf: "None", "Ok", "Err", "Panic"
    packet,         \* the Packet returned by parse (its sets; <<>> when there is none)
    setIdx,         \* position of the iterator over packet.sets (index of the next set)
    inner,          \* outputs of the current DataSet not yet yielded (vec::IntoIter)
    flow,           \* the Flow handed to publisher.publish (<<f>>), <<>> when none
    pubResult,      \* result of the last publisher.publish call: "None", "Ok", "Err"
    dgram,          \* history: the structure the bytes in buf were encoded from
    templates0,     \* history: the template cache when the datagram was received
    emitted,        \* history: number of outputs yielded by session.parse for this packet
    decoded,        \* history: one entry per DataSet handled in this packet
    lastDef,        \* history: most recent TemplateRecord processed, per template id
    call,           \* a call of a library function by a client: the function and its arguments
    ret,            \* what that call returned (<<>> while it has not been made)
    lock,           \* the RwLock around Session.templates: its writer and its readers
    tasks,          \* tasks sharing one Session: position and locals of each
    stable          \* history: the template cache when the last add_records call ended

\* the receive loop of main and its session
mainVars == <<overflowChecks, templates, pc, buf, parsed, packet, setIdx, inner, flow,
              pubResult, dgram, templates0, emitted, decoded, lastDef>>

\* the receive loop without the session's cache
LoopVars == <<overflowChecks, pc, buf, parsed, packet, setIdx, inner, flow,
              pubResult, dgram, templates0, emitted, decoded, lastDef>>

\* a client calling the library functions directly
apiVars == <<call, ret>>

\* tasks that share one Session and its lock
lockVars == <<lock, tasks, stable>>

vars == <<mainVars, apiVars, lockVars>>

----------------------------------------------------------------------------
(* Bounds of the model *)

\* largest number of sets in one generated datagram
MaxSets == 2

\* largest DataSet payload length generated
MaxPayload == 4

\* largest number of bytes that follow the id and the length of a field
\* specifier handed to parse_field_specifier
MaxTail == 4

\* largest number of variable-length records in one DataSet payload
MaxRecords == 2

\* largest number of fields in a template handed to a projector, beyond the
\* one-field templates
MaxFields == 2

\* largest number of bytes handed to parse_number
MaxWidth == 9

----------------------------------------------------------------------------
(* nom results: (rest, value) on success; Error, Incomplete or a panic *)

Ok(r, v) == [tag |-> "Ok", rest |-> r, val |-> v]

Fail(t) == [tag |-> t, rest |-> <<>>, val |-> <<>>]

Drop(input, n) == SubSeq(input, n + 1, Len(input))

\* nom::number::complete::be_u8
be_u8(input) ==
    IF Len(input) < 1 THEN Fail("Error")
    ELSE Ok(Drop(input, 1), input[1])

\* nom::number::complete::be_u16
be_u16(input) ==
    IF Len(input) < 2 THEN Fail("Error")
    ELSE Ok(Drop(input, 2), input[1] * 256 + input[2])

\* nom::number::complete::be_u32
be_u32(input) ==
    IF Len(input) < 4 THEN Fail("Error")
    ELSE Ok(Drop(input, 4),
            ((input[1] * 256 + input[2]) * 256 + input[3]) * 256 + input[4])

\* nom::bytes::complete::take
take(n, input) ==
    IF Len(input) < n THEN Fail("Error")
    ELSE Ok(Drop(input, n), SubSeq(input, 1, n))

\* nom's take! macro (streaming): too little input is Incomplete
take_streaming(n, input) ==
    IF Len(input) < n THEN Fail("Incomplete")
    ELSE Ok(Drop(input, n), SubSeq(input, 1, n))

\* nom's complete!: Incomplete becomes Error
complete(r) == IF r.tag = "Incomplete" THEN Fail("Error") ELSE r

\* the u16 expression `length - 4`: <<n>>, or <<>> when it panics
\* (overflow checks on); without overflow checks it wraps modulo 2^16
LengthMinus4(length) ==
    IF length >= 4 THEN <<length - 4>>
    ELSE IF overflowChecks THEN <<>>
    ELSE <<length - 4 + 65536>>

----------------------------------------------------------------------------
(* src/ipfix/parser.rs *)

\* sequencing as in do_parse! and `?`: a result that is not Ok is returned
\* as it is, an Ok one is handed to the rest of the parser
Bind(r, K(_)) == IF r.tag # "Ok" THEN r ELSE K(r)

\* the length a set or message body is sliced to: take(length - 4), where
\* the subtraction can panic
TakeLengthMinus4(length, Take(_, _), input) ==
    IF LengthMinus4(length) = <<>> THEN Fail("Panic")
    ELSE Take(LengthMinus4(length)[1], input)

\* named!(parse_field_specifier ...)
parse_field_specifier(input) ==
    Bind(be_u16(input), LAMBDA id :
    Bind(be_u16(id.rest), LAMBDA length :
    Bind(IF id.val > 32768 THEN be_u32(length.rest) ELSE Ok(length.rest, <<>>),
         LAMBDA enterprise_id :
    Ok(enterprise_id.rest,
       [id |-> id.val % 32768,
        length |-> length.val,
        enterprise_id |-> IF id.val > 32768 THEN <<enterprise_id.val>> ELSE <<>>]))))

\* FieldSpecifier::read: the bytes of one field, fixed width or (length
\* 0xFFFF) with a 1-byte length prefix, or 0xFF and a 2-byte one
FieldSpecifier_read(field, input) ==
    IF field.length < 65535 THEN take(field.length, input)
    ELSE Bind(be_u8(input), LAMBDA length :
         IF length.val < 255 THEN take(length.val, length.rest)
         ELSE Bind(be_u16(length.rest), LAMBDA length2 :
              take(length2.val, length2.rest)))

\* nom's count, as used by length_count!(be_u16, parse_field_specifier)
RECURSIVE count_field_specifiers(_, _, _)
count_field_specifiers(input, n, acc) ==
    IF n = 0 THEN Ok(input, acc)
    ELSE Bind(parse_field_specifier(input), LAMBDA r :
         count_field_specifiers(r.rest, n - 1, Append(acc, r.val)))

\* one TemplateRecord: id, then length_count!(be_u16, parse_field_specifier)
parse_template_record(input) ==
    Bind(be_u16(input), LAMBDA id :
    Bind(be_u16(id.rest), LAMBDA cnt :
    Bind(count_field_specifiers(cnt.rest, cnt.val, <<>>), LAMBDA fields :
    Ok(fields.rest, [id |-> id.val, fields |-> fields.val]))))

\* nom's many1 after parser result r on input: at least one item, stop at
\* the first Error; Again(rest, acc) parses on
Many1Step(r, input, acc, Again(_, _)) ==
    IF r.tag = "Ok" THEN
        IF acc # <<>> /\ r.rest = input THEN Fail("Error")
        ELSE Again(r.rest, Append(acc, r.val))
    ELSE IF r.tag = "Error" THEN
        IF acc = <<>> THEN Fail("Error") ELSE Ok(input, acc)
    ELSE r

RECURSIVE many1_records(_, _)
many1_records(input, acc) ==
    Many1Step(parse_template_record(input), input, acc, many1_records)

\* named!(do_parse_template_set ...): many1!(do_parse!(..))
do_parse_template_set(input) == many1_records(input, <<>>)

TemplateSet(records) == [kind |-> "TemplateSet", records |-> records, id |-> 2, data |-> <<>>]

OptionsSet == [kind |-> "OptionsSet", records |-> <<>>, id |-> 3, data |-> <<>>]

DataSet(id, data) == [kind |-> "DataSet", records |-> <<>>, id |-> id, data |-> data]

\* pub fn parse_template_set
parse_template_set(input) ==
    Bind(be_u16(input), LAMBDA sid :
    Bind(be_u16(sid.rest), LAMBDA length :
    Bind(TakeLengthMinus4(length.val, take, length.rest), LAMBDA data :
    Bind(do_parse_template_set(data.val), LAMBDA sets :
    IF Len(sets.rest) # 0 THEN Fail("Panic")      \* assert_eq!(r.len(), 0)
    ELSE Ok(data.rest, TemplateSet(sets.val))))))

\* pub fn parse_options_set
parse_options_set(input) ==
    Bind(be_u16(input), LAMBDA sid :
    Bind(be_u16(sid.rest), LAMBDA length :
    Bind(TakeLengthMinus4(length.val, take, length.rest), LAMBDA data :
    Ok(data.rest, OptionsSet))))

\* named!(parse_data_set ...)
parse_data_set(input) ==
    Bind(be_u16(input), LAMBDA id :
    Bind(be_u16(id.rest), LAMBDA length :
    Bind(TakeLengthMinus4(length.val, take_streaming, length.rest), LAMBDA data :
    Ok(data.rest, DataSet(id.val, data.val)))))

\* named!(parse_set ...): switch!(peek!(be_u16), 2 => ..., 3 => ..., _ => ...)
parse_set(input) ==
    Bind(be_u16(input), LAMBDA peek :
    IF peek.val = 2 THEN parse_template_set(input)
    ELSE IF peek.val = 3 THEN parse_options_set(input)
    ELSE parse_data_set(input))

\* many1!(input, complete!(parse_set))
RECURSIVE many1_sets(_, _)
many1_sets(input, acc) ==
    Many1Step(complete(parse_set(input)), input, acc, many1_sets)

\* fn do_parse
do_parse(input) ==
    Bind(be_u16(input), LAMBDA version :
    Bind(be_u16(version.rest), LAMBDA length :
    Bind(TakeLengthMinus4(length.val, take, length.rest), LAMBDA msg :   \* (remaining, input)
    Bind(be_u32(msg.val), LAMBDA export_time :
    Bind(be_u32(export_time.rest), LAMBDA sequence_number :
    Bind(be_u32(sequence_number.rest), LAMBDA observation_domain_id :
    Bind(many1_sets(observation_domain_id.rest, <<>>), LAMBDA sets :
    IF Len(sets.rest) # 0 THEN Fail("Panic")      \* assert_eq!(_input.len(), 0)
    ELSE IF Len(msg.rest) # 0 THEN Fail("Panic")  \* assert_eq!(remaining.len(), 0)
    ELSE Ok(msg.rest, [version |-> version.val,
                       export_time |-> export_time.val,
                       sequence_number |-> sequence_number.val,
                       observation_domain_id |-> observation_domain_id.val,
                       sets |-> sets.val]))))))))

\* the match in pub fn parse on a do_parse result
ParseResult(r) ==
    IF r.tag = "Ok" THEN [tag |-> "Ok", packet |-> r.val]
    ELSE IF r.tag = "Panic" THEN [tag |-> "Panic", packet |-> <<>>]
    ELSE [tag |-> "Err", packet |-> <<>>]

\* pub fn parse: Ok(packet), Err(anyhow) or a panic passing through
parse(input) == ParseResult(do_parse(input))

----------------------------------------------------------------------------
(* src/protocol.rs: value decoders and coercions.  A Value is              *)
(* [variant, val]; <<v>> is a returned value, <<>> a panic (for a decoder) *)
(* or None (for a coercion).                                               *)

RECURSIVE BigEndian(_, _)
BigEndian(bytes, acc) ==
    IF bytes = <<>> THEN acc
    ELSE BigEndian(Tail(bytes), acc * 256 + Head(bytes))

\* pub fn parse_number (with parse_u8 .. parse_u64)
parse_number(input) ==
    CASE Len(input) = 8 -> <<[variant |-> "U64", val |-> BigEndian(input, 0)]>>
      [] Len(input) = 4 -> <<[variant |-> "U32", val |-> BigEndian(input, 0)]>>
      [] Len(input) = 2 -> <<[variant |-> "U16", val |-> BigEndian(input, 0)]>>
      [] Len(input) = 1 -> <<[variant |-> "U8", val |-> BigEndian(input, 0)]>>
      [] OTHER -> <<>>          \* panic!("invalid byte length ...")

\* pub fn parse_ipv4: read_u32(input)...unwrap(); reads the first 4 bytes
parse_ipv4(input) ==
    IF Len(input) < 4 THEN <<>>
    ELSE <<[variant |-> "Ipv4Addr", val |-> SubSeq(input, 1, 4)]>>

\* pub fn parse_mac (with parse_mac6, parse_mac8)
parse_mac(input) ==
    CASE Len(input) = 6 -> <<[variant |-> "MacAddr6", val |-> input]>>
      [] Len(input) = 8 -> <<[variant |-> "MacAddr8", val |-> input]>>
      [] OTHER -> <<>>          \* panic!("invalid byte length ...")

\* pub fn parse_ipv6: read_u128(input)...unwrap(); reads the first 16 bytes
parse_ipv6(input) ==
    IF Len(input) < 16 THEN <<>>
    ELSE <<[variant |-> "Ipv6Addr", val |-> SubSeq(input, 1, 16)]>>

\* parse_string, imported by session.rs; its body is not part of the
\* sources at hand: the bytes as text, as the specification describes it
parse_string(input) == <<[variant |-> "String", val |-> input]>>

\* Value::as_u8
as_u8(v) == IF v.variant = "U8" THEN <<v.val>> ELSE <<>>

\* as_u16 without the widening arm for U8
as_u16_exact(v) == IF v.variant = "U16" THEN <<v.val>> ELSE <<>>

\* Value::as_u16
as_u16(v) == IF v.variant \in {"U8", "U16"} THEN <<v.val>> ELSE <<>>

\* Value::as_u32
as_u32(v) == IF v.variant \in {"U8", "U16", "U32"} THEN <<v.val>> ELSE <<>>

\* Value::as_u64
as_u64(v) == IF v.variant \in {"U8", "U16", "U32", "U64"} THEN <<v.val>> ELSE <<>>

\* Value::as_ipv4
as_ipv4(v) == IF v.variant = "Ipv4Addr" THEN <<v.val>> ELSE <<>>

\* Value::as_mac6
as_mac6(v) == IF v.variant = "MacAddr6" THEN <<v.val>> ELSE <<>>

----------------------------------------------------------------------------
(* src/ipfix/session.rs: FieldParser *)

\* the keys of get_default_field_parsers registered with parse_number
NumberFieldIds ==
    {1, 2, 4, 5, 6, 7, 9, 10, 11, 13, 14} \cup (16..26) \cup (29..33)
    \cup {36, 37, 40, 41, 42, 44, 45, 46, 52, 53, 54, 55, 58, 59, 60, 61, 64}
    \cup {84, 85, 86, 88, 128, 129} \cup (132..139) \cup (141..210)
    \cup {213, 214} \cup (218..224) \cup {227, 228, 233, 240, 243, 244, 256}
    \cup (352..360) \cup {368, 369}

\* fn get_default_field_parsers: id -> decoder
get_default_field_parsers ==
    [id \in NumberFieldIds |-> "parse_number"]
    @@ [id \in {8, 12, 15, 47, 130, 225, 226} |-> "parse_ipv4"]
    @@ [id \in {27, 28, 62, 63, 131, 140} |-> "parse_ipv6"]
    @@ [id \in {56, 57, 80, 81} |-> "parse_mac"]
    @@ [id \in {82, 83} |-> "parse_string"]

\* parser(data) for a registered decoder: <<value>>, or <<>> when it panics
Decode(parser, data) ==
    CASE parser = "parse_number" -> parse_number(data)
      [] parser = "parse_ipv4" -> parse_ipv4(data)
      [] parser = "parse_ipv6" -> parse_ipv6(data)
      [] parser = "parse_mac" -> parse_mac(data)
      [] parser = "parse_string" -> parse_string(data)

\* the value FieldParser::parse records for a field: the registered
\* decoder's, or Value::Unknown(data)
FieldValue(parsers, id, data) ==
    IF id \in DOMAIN parsers THEN Decode(parsers[id], data)
    ELSE <<[variant |-> "Unknown", val |-> data]>>

\* field.read(input).unwrap() and the decoder: a failure of either is a
\* panic, otherwise the loop goes on with the rest and the record pushed
AfterRead(rs, value(_), K(_, _)) ==
    IF rs.tag # "Ok" THEN [tag |-> "Panic", out |-> <<>>]
    ELSE IF value(rs.val) = <<>> THEN [tag |-> "Panic", out |-> <<>>]
    ELSE K(rs.rest, value(rs.val)[1])

\* the loop `for field in fields` of FieldParser::parse, from field i on
RECURSIVE FieldParser_records(_, _, _, _, _, _)
FieldParser_records(parsers, fields, id, i, input, result) ==
    IF i > Len(fields)
    THEN [tag |-> "Some", out |-> <<[id |-> id, records |-> result]>>]
    ELSE AfterRead(FieldSpecifier_read(fields[i], input),
                   LAMBDA data : FieldValue(parsers, fields[i].id, data),
                   LAMBDA rest, value :
                        FieldParser_records(parsers, fields, id, i + 1, rest,
                            Append(result, [id |-> fields[i].id, value |-> value])))

\* impl Parser for FieldParser: Some(RecordSet) or a panic
FieldParser_parse(parsers, fields, set) ==
    FieldParser_records(parsers, fields, set.id, 1, set.data, <<>>)

----------------------------------------------------------------------------
(* src/produce/ipfix.rs: the flow projector *)

IPFIX_BYTES_IN == 1
IPFIX_PACKETS_IN == 2
IPFIX_SRC_PORT == 7
IPFIX_IPV4_SRC_ADDR == 8
IPFIX_IPV4_SRC_MASK == 9
IPFIX_DST_PORT == 11
IPFIX_IPV4_DST_ADDR == 12
IPFIX_IPV4_DST_MASK == 13
IPFIX_IPV4_NEXT_HOP == 15
IPFIX_FLOW_END_SYSUPTIME == 21
IPFIX_FLOW_START_SYSUPTIME == 22
IPFIX_BYTES_OUT == 23
IPFIX_PACKETS_OUT == 24
IPFIX_MAC_SRC == 56
IPFIX_VLAN_ID == 58
IPFIX_POST_VLAN_ID == 59
IPFIX_MAC_DST == 81
IPFIX_POST_NAT_IPV4_SRC_ADDR == 225
IPFIX_POST_NAT_IPV4_DST_ADDR == 226
IPFIX_POST_NAPT_SRC_PORT == 227
IPFIX_POST_NAPT_DST_PORT == 228
IPFIX_ETHERNET_TYPE == 256

\* MacAddr6::broadcast()
Broadcast == <<255, 255, 255, 255, 255, 255>>

\* Ipv4Addr::new(127, 0, 0, 1)
Localhost == <<127, 0, 0, 1>>

\* the locals of IpfixParser::parse before the loop; start and end in ms
FlowLocals ==
    [bytes |-> 0, packets |-> 0, ethernet_type |-> 0,
     src_mac |-> Broadcast, dst_mac |-> Broadcast,
     src_addr |-> Localhost, dst_addr |-> Localhost,
     src_net |-> 0, dst_net |-> 0, src_port |-> 0, dst_port |-> 0,
     vlan_id |-> 0, post_vlan_id |-> 0,
     post_nat_src_addr |-> Localhost, post_nat_dst_addr |-> Localhost,
     post_napt_src_port |-> 0, post_napt_dst_port |-> 0,
     next_hop_addr |-> Localhost,
     start |-> 0, end |-> 0]

\* decoder(data).as_x().unwrap(): <<value>>, or <<>> when either step panics
Unwrap(value, as(_)) == IF value = <<>> THEN <<>> ELSE as(value[1])

\* the match on field.id: the locals after the arm, or a panic
MatchField(st, id, data) ==
    LET Put(slot, opt) ==
            IF opt = <<>> THEN [tag |-> "Panic", st |-> st]
            ELSE [tag |-> "Ok", st |-> [st EXCEPT ![slot] = opt[1]]]
    IN  CASE id = IPFIX_BYTES_IN -> Put("bytes", Unwrap(parse_number(data), as_u64))
          [] id = IPFIX_PACKETS_IN -> Put("packets", Unwrap(parse_number(data), as_u64))
          [] id = IPFIX_BYTES_OUT -> Put("bytes", Unwrap(parse_number(data), as_u64))
          [] id = IPFIX_PACKETS_OUT -> Put("packets", Unwrap(parse_number(data), as_u64))
          [] id = IPFIX_ETHERNET_TYPE -> Put("ethernet_type", Unwrap(parse_number(data), as_u16))
          [] id = IPFIX_FLOW_END_SYSUPTIME -> Put("end", Unwrap(parse_number(data), as_u64))
          [] id = IPFIX_FLOW_START_SYSUPTIME -> Put("start", Unwrap(parse_number(data), as_u64))
          [] id = IPFIX_MAC_SRC -> Put("src_mac", Unwrap(parse_mac(data), as_mac6))
          [] id = IPFIX_MAC_DST -> Put("dst_mac", Unwrap(parse_mac(data), as_mac6))
          [] id = IPFIX_IPV4_SRC_ADDR -> Put("src_addr", Unwrap(parse_ipv4(data), as_ipv4))
          [] id = IPFIX_IPV4_DST_ADDR -> Put("dst_addr", Unwrap(parse_ipv4(data), as_ipv4))
          [] id = IPFIX_IPV4_SRC_MASK -> Put("src_net", Unwrap(parse_number(data), as_u8))
          [] id = IPFIX_IPV4_DST_MASK -> Put("dst_net", Unwrap(parse_number(data), as_u8))
          [] id = IPFIX_SRC_PORT -> Put("src_port", Unwrap(parse_number(data), as_u16))
          [] id = IPFIX_DST_PORT -> Put("dst_port", Unwrap(parse_number(data), as_u16))
          [] id = IPFIX_VLAN_ID -> Put("vlan_id", Unwrap(parse_number(data), as_u16))
          [] id = IPFIX_POST_VLAN_ID -> Put("post_vlan_id", Unwrap(parse_number(data), as_u16))
          [] id = IPFIX_POST_NAT_IPV4_SRC_ADDR ->
                Put("post_nat_src_addr", Unwrap(parse_ipv4(data), as_ipv4))
          [] id = IPFIX_POST_NAT_IPV4_DST_ADDR ->
                Put("post_nat_dst_addr", Unwrap(parse_ipv4(data), as_ipv4))
          [] id = IPFIX_POST_NAPT_SRC_PORT ->
                Put("post_napt_src_port", Unwrap(parse_number(data), as_u16))
          [] id = IPFIX_POST_NAPT_DST_PORT ->
                Put("post_napt_dst_port", Unwrap(parse_number(data), as_u16))
          [] id = IPFIX_IPV4_NEXT_HOP -> Put("next_hop_addr", Unwrap(parse_ipv4(data), as_ipv4))
          [] OTHER -> [tag |-> "Ok", st |-> st]

\* a panic ends the projection; otherwise it goes on with the new locals
AfterField(r, K(_)) == IF r.tag = "Panic" THEN r ELSE K(r.st)

\* the loop `for field in fields` of IpfixParser::parse, from field i on
RECURSIVE ProjectFields(_, _, _, _)
ProjectFields(fields, i, input, st) ==
    IF i > Len(fields) THEN [tag |-> "Ok", st |-> st]
    ELSE IF Len(input) < fields[i].length THEN [tag |-> "Ok", st |-> st]   \* break
    ELSE AfterField(MatchField(st, fields[i].id, SubSeq(input, 1, fields[i].length)),
                    LAMBDA st2 :
                        ProjectFields(fields, i + 1, Drop(input, fields[i].length), st2))

\* the Fluss built from the locals (time_received, the wall clock, left out)
Fluss(st) ==
    [type |-> "IPFIX", flow_age |-> st.end - st.start,
     bytes |-> st.bytes, packets |-> st.packets, ethernet_type |-> st.ethernet_type,
     src_mac |-> st.src_mac, dst_mac |-> st.dst_mac,
     src_addr |-> st.src_addr, dst_addr |-> st.dst_addr,
     src_net |-> st.src_net, dst_net |-> st.dst_net,
     src_port |-> st.src_port, dst_port |-> st.dst_port,
     vlan_id |-> st.vlan_id, post_vlan_id |-> st.post_vlan_id,
     post_nat_src_addr |-> st.post_nat_src_addr,
     post_nat_dst_addr |-> st.post_nat_dst_addr,
     post_napt_src_port |-> st.post_napt_src_port,
     post_napt_dst_port |-> st.post_napt_dst_port,
     next_hop_addr |-> st.next_hop_addr]

\* Some(Fluss { .. }) after the loop; `end - start` on Durations panics
\* when end < start
SomeFluss(r) ==
    IF r.tag = "Panic" THEN [tag |-> "Panic", out |-> <<>>]
    ELSE IF r.st.end < r.st.start THEN [tag |-> "Panic", out |-> <<>>]
    ELSE [tag |-> "Some", out |-> <<Fluss(r.st)>>]

\* impl Parser for IpfixParser: Some(Fluss) or a panic
IpfixParser_parse(fields, data) == SomeFluss(ProjectFields(fields, 1, data, FlowLocals))

----------------------------------------------------------------------------
(* src/ipfix/session.rs: DebugParser around the flow projector *)

\* the argument of tracing::info! in DebugParser::parse: parser(data) for a
\* registered id, evaluated when the INFO level is enabled; <<>> is a panic
Logged(info, id, data) ==
    IF info /\ id \in DOMAIN get_default_field_parsers
    THEN Decode(get_default_field_parsers[id], data)
    ELSE <<[variant |-> "Unknown", val |-> data]>>

\* the loop `for (field, data) in set.with_fields(fields)`: with_fields
\* panics when field.read fails, the logged decoder can panic; otherwise
\* the call is delegated
RECURSIVE DebugParser_fields(_, _, _, _, _)
DebugParser_fields(info, fields, i, input, data) ==
    IF i > Len(fields) THEN IpfixParser_parse(fields, data)
    ELSE AfterRead(FieldSpecifier_read(fields[i], input),
                   LAMBDA bytes : Logged(info, fields[i].id, bytes),
                   LAMBDA rest, value :
                        DebugParser_fields(info, fields, i + 1, rest, data))

\* impl Parser for DebugParser<IpfixParser>
DebugParser_parse(info, fields, data) == DebugParser_fields(info, fields, 1, data, data)

----------------------------------------------------------------------------
(* src/ipfix/session.rs: the session and its template cache *)

\* Session::new: HashMap::new()
EmptyMap == [t \in {} |-> <<>>]

\* HashMap::insert
Insert(m, k, v) == [t \in DOMAIN m \cup {k} |-> IF t = k THEN v ELSE m[t]]

\* the loop `for record in records` of Session::add_records, from record i on
RECURSIVE InsertRecords(_, _, _)
InsertRecords(tpl, records, i) ==
    IF i > Len(records) THEN tpl
    ELSE InsertRecords(Insert(tpl, records[i].id, records[i].fields), records, i + 1)

\* a variant of Session::add_records that keeps the definition already cached
\* for an id (entry(id).or_insert(..)) instead of overwriting it
Session_add_records_keep_first(tpl, records) ==
    [T \in DOMAIN tpl \cup {records[i].id : i \in DOMAIN records} |->
        IF T \in DOMAIN tpl THEN tpl[T]
        ELSE records[CHOOSE i \in DOMAIN records :
                        /\ records[i].id = T
                        /\ \A j \in DOMAIN records : records[j].id = T => i <= j].fields]

\* Session::add_records: the cache after the call
Session_add_records(tpl, records) == InsertRecords(tpl, records, 1)

\* fields.iter().map(|f| f.length as usize).sum()
RECURSIVE SumLengths(_)
SumLengths(fields) ==
    IF fields = <<>> THEN 0 ELSE Head(fields).length + SumLengths(Tail(fields))

\* slice::chunks(size) for size > 0: full chunks, then the shorter rest if any
RECURSIVE Chunks(_, _)
Chunks(data, size) ==
    IF data = <<>> THEN <<>>
    ELSE IF Len(data) <= size THEN <<data>>
    ELSE <<SubSeq(data, 1, size)>> \o Chunks(Drop(data, size), size)

\* the projector the session was built with in main (no --debug): IpfixParser
Parser_parse(fields, data) == IpfixParser_parse(fields, data)

\* a panic of the projector ends the collection; None is filtered out
AfterChunk(r, K(_)) == IF r.tag = "Panic" THEN [tag |-> "Panic", outs |-> <<>>] ELSE K(r.out)

\* .filter_map(|data| self.parser.parse(..)).collect(), from chunk i on
RECURSIVE CollectOutputs(_, _, _, _)
CollectOutputs(fields, chunks, i, acc) ==
    IF i > Len(chunks) THEN [tag |-> "Ok", outs |-> acc]
    ELSE AfterChunk(Parser_parse(fields, chunks[i]),
                    LAMBDA out : CollectOutputs(fields, chunks, i + 1, acc \o out))

\* set.data.chunks(length)...collect() under the looked-up fields;
\* chunks(0) panics
ProjectDataSet(fields, length, data) ==
    IF length = 0 THEN [tag |-> "Panic", outs |-> <<>>]
    ELSE CollectOutputs(fields, Chunks(data, length), 1, <<>>)

WithFields(r, fields) == [tag |-> r.tag, outs |-> r.outs, fields |-> <<fields>>]

\* a variant of Session::parse_data_set that decodes a DataSet without a
\* cached template under a one-field default instead of returning vec![]
Session_parse_data_set_default_on_miss(tpl, set) ==
    IF set.id \notin DOMAIN tpl
    THEN WithFields(ProjectDataSet(<<[id |-> 7, length |-> 2, enterprise_id |-> <<>>]>>,
                                   2, set.data), <<>>)
    ELSE WithFields(ProjectDataSet(tpl[set.id], SumLengths(tpl[set.id]), set.data),
                    tpl[set.id])

\* Session::parse_data_set: the outputs, or a panic; fields is the looked-up
\* template (<<>> on a miss)
Session_parse_data_set(tpl, set) ==
    IF set.id \notin DOMAIN tpl THEN [tag |-> "Ok", outs |-> <<>>, fields |-> <<>>]
    ELSE WithFields(ProjectDataSet(tpl[set.id], SumLengths(tpl[set.id]), set.data),
                    tpl[set.id])

\* flatten() after a DataSet gave r: an empty Vec is skipped (Again goes on
\* with the next set), a non-empty one is the new inner iterator
AfterDataSet(r, tpl, sets, i, log, Again(_, _, _, _)) ==
    IF r.tag = "Panic"
    THEN [tag |-> "Panic", tpl |-> tpl, idx |-> i, outs |-> <<>>, log |-> log]
    ELSE IF r.outs = <<>>
    THEN Again(tpl, sets, i + 1,
               Append(log, [idx |-> i, id |-> sets[i].id, fields |-> r.fields, n |-> 0]))
    ELSE [tag |-> "Some", tpl |-> tpl, idx |-> i + 1, outs |-> r.outs,
          log |-> Append(log, [idx |-> i, id |-> sets[i].id,
                               fields |-> r.fields, n |-> Len(r.outs)])]

\* the filter_map(..).flatten() of Session::parse, advancing from set i until
\* a DataSet yields outputs ("Some"), the sets are exhausted ("None") or a
\* panic; log has one entry per DataSet handled on the way
RECURSIVE Advance(_, _, _, _)
Advance(tpl, sets, i, log) ==
    IF i > Len(sets) THEN [tag |-> "None", tpl |-> tpl, idx |-> i, outs |-> <<>>, log |-> log]
    ELSE IF sets[i].kind = "TemplateSet"
         THEN Advance(Session_add_records(tpl, sets[i].records), sets, i + 1, log)
    ELSE IF sets[i].kind = "OptionsSet"
         THEN Advance(tpl, sets, i + 1, log)
    ELSE AfterDataSet(Session_parse_data_set(tpl, sets[i]), tpl, sets, i, log, Advance)

\* the cache after every TemplateSet among sets[i ..] has been installed
RECURSIVE InstallTemplateSets(_, _, _)
InstallTemplateSets(tpl, sets, i) ==
    IF i > Len(sets) THEN tpl
    ELSE InstallTemplateSets(IF sets[i].kind = "TemplateSet"
                             THEN Session_add_records(tpl, sets[i].records)
                             ELSE tpl,
                             sets, i + 1)

\* a variant of the iterator that installs the TemplateSets still ahead in the
\* packet before it handles the next DataSet
Session_parse_next_templates_first(tpl, sets, i) ==
    Advance(InstallTemplateSets(tpl, sets, i), sets, i, <<>>)

\* a variant of the iterator that has every TemplateSet of the packet
\* installed as soon as it is asked for an output
Session_parse_next_eager(tpl, sets, i) ==
    [Advance(tpl, sets, i, <<>>) EXCEPT !.tpl = InstallTemplateSets(@, sets, 1)]

\* a variant of the iterator that walks the sets as Advance does and leaves
\* the cache as it found it
Session_parse_next_no_install(tpl, sets, i) ==
    [Advance(tpl, sets, i, <<>>) EXCEPT !.tpl = tpl]

\* one call of next() on the iterator returned by Session::parse, when the
\* current DataSet has no outputs left
Session_parse_next(tpl, sets, i) == Advance(tpl, sets, i, <<>>)

\* for .. in session.parse(&packet) after next() returned r: the outputs
\* are taken and next() is called again (Again), until the iterator ends
\* or a panic
AfterNext(r, outs, Again(_, _, _, _)) ==
    IF r.tag = "Some" THEN Again(r.tpl, r.idx, outs \o r.outs, Len(r.outs))
    ELSE [tag |-> IF r.tag = "None" THEN "Ok" ELSE "Panic", outs |-> outs, tpl |-> r.tpl]

\* the sequence returned by Session::parse consumed to its end: every
\* output in order and the cache afterwards, or a panic
RECURSIVE Session_parse_all(_, _, _, _)
Session_parse_all(tpl, sets, i, outs) ==
    AfterNext(Session_parse_next(tpl, sets, i), outs,
              LAMBDA tpl2, i2, outs2, n : Session_parse_all(tpl2, sets, i2, outs2))

\* fluss::ipfix::parse(..) gave r; when it is a Packet, a fresh session's
\* parse is consumed to its end
ParseAndProject(r) ==
    IF r.tag = "Ok" THEN Session_parse_all(EmptyMap, r.packet.sets, 1, <<>>)
    ELSE [tag |-> r.tag, outs |-> <<>>, tpl |-> EmptyMap]

----------------------------------------------------------------------------
(* The datagrams the exporters send: structures encoded to bytes *)

RECURSIVE Concat(_)
Concat(seqs) == IF seqs = <<>> THEN <<>> ELSE Head(seqs) \o Concat(Tail(seqs))

Enc16(n) == <<n \div 256, n % 256>>

Enc32(n) == Enc16(n \div 65536) \o Enc16(n % 65536)

Field(id, length) == [id |-> id, length |-> length, enterprise_id |-> <<>>]

Record(id, fields) == [id |-> id, fields |-> fields]

EncodeFieldSpecifier(f) ==
    IF f.enterprise_id = <<>> THEN Enc16(f.id) \o Enc16(f.length)
    ELSE Enc16(f.id + 32768) \o Enc16(f.length) \o Enc32(f.enterprise_id[1])

EncodeRecord(r) ==
    Enc16(r.id) \o Enc16(Len(r.fields))
        \o Concat([i \in 1..Len(r.fields) |-> EncodeFieldSpecifier(r.fields[i])])

\* a set on the wire: what it is meant to be, its set id and its body
TemplateDesc(records) ==
    [what |-> "template", sid |-> 2,
     body |-> Concat([i \in 1..Len(records) |-> EncodeRecord(records[i])])]

OptionsDesc == [what |-> "options", sid |-> 3, body |-> <<0, 0>>]

DataDesc(id, data) == [what |-> "data", sid |-> id, body |-> data]

\* a set with a reserved id (0, 1, 4..255)
ReservedDesc(id, data) == [what |-> "reserved", sid |-> id, body |-> data]

\* a template set with no records
EmptyTemplateDesc == [what |-> "empty_template", sid |-> 2, body |-> <<>>]

\* a template set whose only record announces one field and holds half of it
TruncatedTemplateDesc ==
    [what |-> "truncated_template", sid |-> 2,
     body |-> Enc16(256) \o Enc16(1) \o Enc16(8)]

SetBytes(s) == Enc16(s.sid) \o Enc16(4 + Len(s.body)) \o s.body

\* the message: header (version, length, export time, sequence number,
\* observation domain), then the sets; faults change the version, the header
\* length or add a byte after the message
DatagramBytes(d) ==
    LET body == Concat([i \in 1..Len(d.sets) |-> SetBytes(d.sets[i])])
        version == IF d.fault = "bad_version" THEN 9 ELSE 10
        length == IF d.fault = "short_length" THEN 3 ELSE 16 + Len(body)
    IN  Enc16(version) \o Enc16(length) \o <<0, 0, 0, 0, 0, 0, 0, 1, 0, 0, 0, 0>>
            \o body \o (IF d.fault = "trailing" THEN <<0>> ELSE <<>>)

\* (IE 7 sourceTransportPort, 2 bytes): stride 2
FieldsA == <<Field(IPFIX_SRC_PORT, 2)>>

\* (IE 11 destinationTransportPort, 2 bytes; IE 9 sourceIPv4Mask, 1 byte): stride 3
FieldsB == <<Field(IPFIX_DST_PORT, 2), Field(IPFIX_IPV4_SRC_MASK, 1)>>

Payload(n) == [i \in 1..n |-> i]

SetMenu ==
    {TemplateDesc(<<Record(256, FieldsA)>>),
     TemplateDesc(<<Record(256, FieldsB)>>),
     TemplateDesc(<<Record(257, FieldsB), Record(256, FieldsA)>>),
     OptionsDesc,
     DataDesc(257, Payload(MaxPayload)),
     ReservedDesc(5, Payload(2)),
     EmptyTemplateDesc,
     TruncatedTemplateDesc}
    \cup {DataDesc(256, Payload(n)) : n \in 0..MaxPayload}

Faults == {"none", "bad_version", "trailing", "short_length"}

Datagrams ==
    {[sets |-> ss, fault |-> "none"] :
        ss \in UNION {[1..n -> SetMenu] : n \in 0..MaxSets}}
    \cup {[sets |-> ss, fault |-> f] :
        ss \in UNION {[1..n -> SetMenu] : n \in 0..2}, f \in Faults}

NoDatagram == [sets |-> <<>>, fault |-> "none"]

\* no library function is being called by a client
NoCall == [fn |-> "none"]

\* RwLock::new: no writer, no reader
RwLock_new == [writer |-> {}, readers |-> {}]

\* the session is used by the receive loop alone: no other task, lock free
NoTasks ==
    /\ lock = RwLock_new
    /\ tasks = <<>>
    /\ stable = EmptyMap

----------------------------------------------------------------------------
(* History: the most recent TemplateRecord per id, found by looking back   *)
(* from the end of the records processed                                   *)

\* the records of the TemplateSets among sets[from .. to-1], in wire order
RECURSIVE RecordsBetween(_, _, _)
RecordsBetween(sets, from, to) ==
    IF from >= to THEN <<>>
    ELSE (IF sets[from].kind = "TemplateSet" THEN sets[from].records ELSE <<>>)
            \o RecordsBetween(sets, from + 1, to)

\* <<fields>> of the last record with id T in recs, <<>> when there is none
LatestIn(recs, T) ==
    LET I == {i \in DOMAIN recs : recs[i].id = T} IN
    IF I = {} THEN <<>>
    ELSE <<recs[CHOOSE i \in I : \A j \in I : j <= i].fields>>

DefAfter(def, recs) ==
    [T \in DOMAIN def \cup {recs[i].id : i \in DOMAIN recs} |->
        IF LatestIn(recs, T) # <<>> THEN LatestIn(recs, T)[1] ELSE def[T]]

Resolve(def, T) == IF T \in DOMAIN def THEN <<def[T]>> ELSE <<>>

----------------------------------------------------------------------------
(* src/main.rs: the receive loop *)

Init ==
    /\ overflowChecks \in BOOLEAN
    /\ templates = EmptyMap
    /\ pc = "recv"
    /\ buf = <<>>
    /\ parsed = "None"
    /\ packet = <<>>
    /\ setIdx = 1
    /\ inner = <<>>
    /\ flow = <<>>
    /\ pubResult = "None"
    /\ dgram = NoDatagram
    /\ templates0 = EmptyMap
    /\ emitted = 0
    /\ decoded = <<>>
    /\ lastDef = EmptyMap
    /\ call = NoCall
    /\ ret = <<>>
    /\ NoTasks

\* the loop body up to the for loop, given the bytes received and the
\* result r of fluss::ipfix::parse on them
Parsed(d, bytes, r) ==
    /\ buf' = bytes
    /\ parsed' = r.tag
    /\ packet' = IF r.tag = "Ok" THEN <<r.packet>> ELSE <<>>
    /\ pc' = IF r.tag = "Ok" THEN "iter"
             ELSE IF r.tag = "Err" THEN "exited"
             ELSE "panicked"
    /\ dgram' = d
    /\ setIdx' = 1
    /\ inner' = <<>>
    /\ flow' = <<>>
    /\ pubResult' = "None"
    /\ templates0' = templates
    /\ emitted' = 0
    /\ decoded' = <<>>
    /\ UNCHANGED <<overflowChecks, templates, lastDef>>
    /\ UNCHANGED <<apiVars, lockVars>>

Received(d, bytes) == Parsed(d, bytes, parse(bytes))

\* socket.recv_from(..).await? returns a datagram; fluss::ipfix::parse(..)?;
\* session.parse(&packet) builds the (lazy) iterator
Receive(d) ==
    /\ pc = "recv"
    /\ Received(d, DatagramBytes(d))

\* socket.recv_from(..).await? returns an error: main returns it
ReceiveError ==
    /\ pc = "recv"
    /\ pc' = "exited"
    /\ UNCHANGED <<overflowChecks, templates, buf, parsed, packet, setIdx, inner, flow,
                   pubResult, dgram, templates0, emitted, decoded, lastDef>>
    /\ UNCHANGED <<apiVars, lockVars>>

\* next() found the inner iterator empty and advanced over the sets: r
Advanced(sets, r) ==
    /\ templates' = r.tpl
    /\ setIdx' = r.idx
    /\ lastDef' = DefAfter(lastDef, RecordsBetween(sets, setIdx, r.idx))
    /\ decoded' = decoded \o
          [k \in 1..Len(r.log) |->
              [idx |-> r.log[k].idx, id |-> r.log[k].id,
               fields |-> r.log[k].fields, n |-> r.log[k].n,
               last |-> Resolve(DefAfter(lastDef,
                                    RecordsBetween(sets, setIdx, r.log[k].idx)),
                                r.log[k].id)]]
    /\ flow' = IF r.tag = "Some" THEN <<Head(r.outs)>> ELSE <<>>
    /\ inner' = IF r.tag = "Some" THEN Tail(r.outs) ELSE <<>>
    /\ emitted' = IF r.tag = "Some" THEN emitted + 1 ELSE emitted
    /\ pc' = IF r.tag = "Some" THEN "publish"
             ELSE IF r.tag = "None" THEN "loopend"
             ELSE "panicked"

\* the for loop asks the iterator for the next flow
IterNext ==
    /\ pc = "iter"
    /\ IF inner # <<>>
       THEN /\ flow' = <<Head(inner)>>
            /\ inner' = Tail(inner)
            /\ emitted' = emitted + 1
            /\ pc' = "publish"
            /\ UNCHANGED <<templates, setIdx, decoded, lastDef>>
       ELSE Advanced(packet[1].sets, Session_parse_next(templates, packet[1].sets, setIdx))
    /\ UNCHANGED <<overflowChecks, buf, parsed, packet, pubResult, dgram, templates0>>
    /\ UNCHANGED <<apiVars, lockVars>>

\* publisher.publish(&flow).await? returns Ok(()) or an error
Publish(ok) ==
    /\ pc = "publish"
    /\ pubResult' = IF ok THEN "Ok" ELSE "Err"
    /\ pc' = IF ok THEN "iter" ELSE "exited"
    /\ flow' = <<>>
    /\ UNCHANGED <<overflowChecks, templates, buf, parsed, packet, setIdx, inner,
                   dgram, templates0, emitted, decoded, lastDef>>
    /\ UNCHANGED <<apiVars, lockVars>>

\* the end of the loop body: the packet and the iterator are dropped and the
\* loop goes back to recv_from
LoopEnd ==
    /\ pc = "loopend"
    /\ pc' = "recv"
    /\ buf' = <<>>
    /\ parsed' = "None"
    /\ packet' = <<>>
    /\ setIdx' = 1
    /\ inner' = <<>>
    /\ flow' = <<>>
    /\ pubResult' = "None"
    /\ dgram' = NoDatagram
    /\ templates0' = templates
    /\ emitted' = 0
    /\ decoded' = <<>>
    /\ UNCHANGED <<overflowChecks, templates, lastDef>>
    /\ UNCHANGED <<apiVars, lockVars>>

Next ==
    \/ \E d \in Datagrams : Receive(d)
    \/ ReceiveError
    \/ IterNext
    \/ \E ok \in BOOLEAN : Publish(ok)
    \/ LoopEnd

Spec == Init /\ [][Next]_vars

----------------------------------------------------------------------------
(* A client of the library: one call of one public function on bounded     *)
(* arguments.  The receive loop of main is at rest meanwhile.              *)

\* main before the loop is entered, whatever the build profile
LoopIdle ==
    /\ pc = "recv"
    /\ buf = <<>>
    /\ parsed = "None"
    /\ packet = <<>>
    /\ setIdx = 1
    /\ inner = <<>>
    /\ flow = <<>>
    /\ pubResult = "None"
    /\ dgram = NoDatagram
    /\ templates0 = EmptyMap
    /\ emitted = 0
    /\ decoded = <<>>
    /\ lastDef = EmptyMap

LoopAtRest ==
    /\ overflowChecks = TRUE
    /\ LoopIdle

MainAtRest == LoopIdle /\ templates = EmptyMap

\* the build profile a call runs under: overflow checks on unless the call
\* says otherwise
OverflowChecksOf(c) ==
    IF "overflow_checks" \in DOMAIN c THEN c.overflow_checks ELSE TRUE

\* wire field ids around the enterprise bit (bit 15)
WireFieldIds == {0, 7, 32767, 32768, 32769, 40000, 65535}

\* field specifiers on the wire: id, length, then 0..MaxTail more bytes; and
\* inputs too short to hold an id and a length
FieldSpecifierInputs ==
    {Enc16(id) \o Enc16(length) \o Payload(n) :
        id \in WireFieldIds, length \in {0, 4, 65535}, n \in 0..MaxTail}
    \cup {Payload(n) : n \in 0..3}

ParseFieldSpecifierCalls ==
    {[fn |-> "parse_field_specifier", input |-> i] : i \in FieldSpecifierInputs}

\* a variable-length value on the wire: 1-byte length prefix, then the bytes
VarValue(n) == <<n>> \o Payload(n)

\* templates with a variable-length field (IE 82, interfaceName), and one
\* record of each on the wire, the variable value of n bytes
VarTemplates ==
    {<<Field(82, 65535)>>, <<Field(IPFIX_SRC_PORT, 2), Field(82, 65535)>>}

VarRecordBytes(fields, n) ==
    IF Len(fields) = 1 THEN VarValue(n) ELSE <<0, 80>> \o VarValue(n)

\* Session::parse_data_set on a DataSet 256 whose payload holds `records`
\* back-to-back records of the cached variable-length template
VarDataSetCalls ==
    {[fn |-> "Session::parse_data_set",
      tpl |-> Insert(EmptyMap, 256, fields),
      set |-> DataSet(256, Concat([i \in 1..k |-> VarRecordBytes(fields, ns[i])])),
      records |-> k] :
        fields \in VarTemplates,
        k \in 1..MaxRecords,
        ns \in [1..MaxRecords -> {0, 2}]}

\* a value on the wire: v as n bytes, big-endian
RECURSIVE EncN(_, _)
EncN(v, n) == IF n = 0 THEN <<>> ELSE EncN(v \div 256, n - 1) \o <<v % 256>>

\* the Information Elements IpfixParser matches on, each with the width of
\* the Flow slot it fills
TableFields ==
    {Field(IPFIX_BYTES_IN, 8), Field(IPFIX_PACKETS_IN, 8),
     Field(IPFIX_BYTES_OUT, 8), Field(IPFIX_PACKETS_OUT, 8),
     Field(IPFIX_FLOW_END_SYSUPTIME, 8), Field(IPFIX_FLOW_START_SYSUPTIME, 8),
     Field(IPFIX_ETHERNET_TYPE, 2),
     Field(IPFIX_MAC_SRC, 6), Field(IPFIX_MAC_DST, 6),
     Field(IPFIX_IPV4_SRC_ADDR, 4), Field(IPFIX_IPV4_DST_ADDR, 4),
     Field(IPFIX_IPV4_SRC_MASK, 1), Field(IPFIX_IPV4_DST_MASK, 1),
     Field(IPFIX_SRC_PORT, 2), Field(IPFIX_DST_PORT, 2),
     Field(IPFIX_VLAN_ID, 2), Field(IPFIX_POST_VLAN_ID, 2),
     Field(IPFIX_POST_NAT_IPV4_SRC_ADDR, 4), Field(IPFIX_POST_NAT_IPV4_DST_ADDR, 4),
     Field(IPFIX_POST_NAPT_SRC_PORT, 2), Field(IPFIX_POST_NAPT_DST_PORT, 2),
     Field(IPFIX_IPV4_NEXT_HOP, 4)}

\* an Information Element IpfixParser has no arm for (IE 4, protocolIdentifier)
UnlistedField == Field(4, 1)

\* matched Information Elements with a width their decoder or their slot
\* does not take
BadWidthFields ==
    {Field(IPFIX_BYTES_IN, 3), Field(IPFIX_SRC_PORT, 4),
     Field(IPFIX_IPV4_SRC_ADDR, 2), Field(IPFIX_IPV4_SRC_ADDR, 6),
     Field(IPFIX_MAC_SRC, 4), Field(IPFIX_MAC_SRC, 8)}

\* the fields the longer templates are made of
CoreFields ==
    {Field(IPFIX_BYTES_IN, 8), Field(IPFIX_BYTES_OUT, 8),
     Field(IPFIX_FLOW_END_SYSUPTIME, 8), Field(IPFIX_FLOW_START_SYSUPTIME, 8),
     Field(IPFIX_SRC_PORT, 2), Field(IPFIX_IPV4_SRC_ADDR, 4), UnlistedField}

\* the fields the templates of more than two fields are made of
TimeFields ==
    {Field(IPFIX_FLOW_END_SYSUPTIME, 8), Field(IPFIX_FLOW_START_SYSUPTIME, 8),
     UnlistedField}

\* the templates handed to the projector
FieldLists ==
    {<<f>> : f \in TableFields \cup {UnlistedField} \cup BadWidthFields}
    \cup [1..2 -> CoreFields]
    \cup UNION {[1..n -> TimeFields] : n \in 2..MaxFields}
    \cup {<<Field(IPFIX_PACKETS_IN, 8), Field(IPFIX_PACKETS_OUT, 8)>>,
          <<Field(IPFIX_PACKETS_OUT, 8), Field(IPFIX_PACKETS_IN, 8)>>}
    \cup {<<Field(IPFIX_DST_PORT, 2), b>> : b \in BadWidthFields}
    \cup {<<b, Field(IPFIX_DST_PORT, 2)>> : b \in BadWidthFields}

\* the values the exporter puts in the fields
FieldValues == {1, 258}

\* one record on the wire: each field's value at the field's width
RecordBytes(fields, values) ==
    Concat([i \in 1..Len(fields) |-> EncN(values[i], fields[i].length)])

\* calls of a Parser on a record of each template, whole or cut short
ParserCalls(fn, lists) ==
    UNION {UNION {
        {[fn |-> fn, fields |-> fs, values |-> vs,
          data |-> SubSeq(RecordBytes(fs, vs), 1, c)] :
            c \in 0..Len(RecordBytes(fs, vs))} :
        vs \in [1..Len(fs) -> FieldValues]} :
        fs \in lists}

\* IpfixParser::parse on a record of the template, whole or cut short
ProjectorCalls == ParserCalls("IpfixParser::parse", FieldLists)

\* fields with a registered decoder of each kind, at a width the decoder
\* takes
DecodableFields ==
    {Field(IPFIX_SRC_PORT, 2), Field(IPFIX_IPV4_SRC_ADDR, 4), Field(27, 16),
     Field(IPFIX_MAC_SRC, 6), Field(82, 3)}

\* IE 7, registered with parse_number, at a width parse_number rejects
OddNumberField == Field(IPFIX_SRC_PORT, 3)

\* a field id get_default_field_parsers has no entry for
UnregisteredField == Field(3, 2)

\* the templates handed to FieldParser
ParserFieldLists ==
    {<<f>> : f \in DecodableFields \cup {OddNumberField, UnregisteredField}}
    \cup UNION {[1..n -> {Field(IPFIX_SRC_PORT, 2), OddNumberField,
                          UnregisteredField}] : n \in 2..MaxFields}

\* FieldParser::parse, built with and without the default decoders, on a
\* record of the template, whole or cut short
FieldParserCalls ==
    {[fn |-> "FieldParser::parse", parsers |-> ps, fields |-> c.fields,
      values |-> c.values, data |-> c.data] :
        ps \in {get_default_field_parsers, EmptyMap},
        c \in ParserCalls("FieldParser::parse", ParserFieldLists)}

\* the templates handed to DebugParser
DebugFieldLists ==
    {<<f>> : f \in CoreFields \cup {Field(IPFIX_MAC_SRC, 6)}}
    \cup UNION {[1..n -> {Field(IPFIX_SRC_PORT, 2), UnlistedField}] : n \in 2..MaxFields}

\* DebugParser::parse with the INFO level enabled and disabled, on a record
\* of the template, whole or cut short
DebugParserCalls ==
    {[fn |-> "DebugParser::parse", info |-> b, fields |-> c.fields,
      values |-> c.values, data |-> c.data] :
        b \in BOOLEAN, c \in ParserCalls("DebugParser::parse", DebugFieldLists)}

\* field lists of total length 0, and one of length 2 beside them
ZeroStrideTemplates ==
    {<<>>, <<Field(IPFIX_SRC_PORT, 0)>>,
     <<Field(IPFIX_SRC_PORT, 0), Field(IPFIX_DST_PORT, 0)>>}

\* a datagram that defines template 256 and carries a DataSet 256 of n
\* bytes, parsed and projected by a fresh session
SessionParseCalls ==
    {[fn |-> "Session::parse", fields |-> fs, payload |-> n,
      dgram |-> [sets |-> <<TemplateDesc(<<Record(256, fs)>>),
                           DataDesc(256, Payload(n))>>,
                 fault |-> "none"]] :
        fs \in ZeroStrideTemplates \cup {FieldsA}, n \in 0..MaxPayload}

\* a message on the wire with the given header length field
MessageBytes(length, body) ==
    Enc16(10) \o Enc16(length) \o <<0, 0, 0, 0, 0, 0, 0, 1, 0, 0, 0, 0>> \o body

\* a set on the wire whose length field is below the 4 bytes of its header
ShortSetBytes(sid, length) == Enc16(sid) \o Enc16(length) \o Payload(2)

\* the sets of a message whose set at `position` has a short length field;
\* a well-formed TemplateSet comes before it when it is the second
ShortSetBody(sid, length, position) ==
    (IF position = 2 THEN SetBytes(TemplateDesc(<<Record(256, FieldsA)>>)) ELSE <<>>)
        \o ShortSetBytes(sid, length)

\* fluss::ipfix::parse, built with and without overflow checks, on a
\* message whose header length, or whose template, options or data set
\* length, is below 4
ShortLengthCalls ==
    {[fn |-> "fluss::ipfix::parse", overflow_checks |-> b, short |-> "message",
      sid |-> 2, position |-> 1, length |-> n,
      input |-> MessageBytes(n, SetBytes(TemplateDesc(<<Record(256, FieldsA)>>)))] :
        b \in BOOLEAN, n \in 0..3}
    \cup {[fn |-> "fluss::ipfix::parse", overflow_checks |-> b, short |-> "set",
           sid |-> sid, position |-> p, length |-> n,
           input |-> MessageBytes(16 + Len(ShortSetBody(sid, n, p)),
                                  ShortSetBody(sid, n, p))] :
        b \in BOOLEAN, sid \in {2, 3, 256}, p \in {1, 2}, n \in 0..3}

\* the numbers handed to parse_number (0x01020304 the largest)
NumberValues == {0, 1, 258, 16909060}

\* parse_number on the big-endian bytes of a number at each width
ParseNumberCalls ==
    {[fn |-> "parse_number", value |-> v, width |-> n, data |-> EncN(v, n)] :
        v \in NumberValues, n \in 0..MaxWidth}

\* the integer Values handed to the coercions, at the ends of their range
\* where the range fits
IntegerValues ==
    {[variant |-> "U8", val |-> x] : x \in {0, 7, 255}}
    \cup {[variant |-> "U16", val |-> x] : x \in {0, 7, 256, 65535}}
    \cup {[variant |-> "U32", val |-> x] : x \in {0, 7, 65536, 16909060}}
    \cup {[variant |-> "U64", val |-> x] : x \in {0, 7, 65536, 16909060}}

\* a Value of each other variant of the enum
OtherValues ==
    {[variant |-> "Bytes", val |-> <<7>>], [variant |-> "Unknown", val |-> <<7>>],
     [variant |-> "String", val |-> <<104, 105>>],
     [variant |-> "Ipv4Addr", val |-> Localhost],
     [variant |-> "Ipv6Addr", val |-> EncN(1, 16)],
     [variant |-> "MacAddr6", val |-> Broadcast],
     [variant |-> "MacAddr8", val |-> EncN(1, 8)]}

\* as_u8, as_u16, as_u32 and as_u64 on each Value (the receiver is
\* `number` or `other`)
CoercionCalls ==
    {[fn |-> "Value::as_uN", bits |-> n, number |-> v] :
        n \in {8, 16, 32, 64}, v \in IntegerValues}
    \cup {[fn |-> "Value::as_uN", bits |-> n, other |-> v] :
        n \in {8, 16, 32, 64}, v \in OtherValues}

\* the receiver of a coercion call
Receiver(c) == IF "number" \in DOMAIN c THEN c.number ELSE c.other

ApiCalls ==
    ParseFieldSpecifierCalls \cup VarDataSetCalls \cup ProjectorCalls
    \cup FieldParserCalls \cup ParseNumberCalls \cup CoercionCalls
    \cup DebugParserCalls \cup SessionParseCalls \cup ShortLengthCalls

InitApi ==
    /\ call \in ApiCalls
    /\ overflowChecks = OverflowChecksOf(call)
    /\ MainAtRest
    /\ ret = <<>>
    /\ NoTasks

\* the call returns r (a panic is an outcome of its own)
Returns(r) ==
    /\ ret = <<>>
    /\ ret' = <<r>>
    /\ UNCHANGED <<call, mainVars, lockVars>>

CallParseFieldSpecifier ==
    /\ call.fn = "parse_field_specifier"
    /\ Returns(parse_field_specifier(call.input))

CallSessionParseDataSet ==
    /\ call.fn = "Session::parse_data_set"
    /\ Returns(Session_parse_data_set(call.tpl, call.set))

CallIpfixParser ==
    /\ call.fn = "IpfixParser::parse"
    /\ Returns(IpfixParser_parse(call.fields, call.data))

CallFieldParser ==
    /\ call.fn = "FieldParser::parse"
    /\ Returns(FieldParser_parse(call.parsers, call.fields,
                                 [id |-> 256, data |-> call.data]))

CallDebugParser ==
    /\ call.fn = "DebugParser::parse"
    /\ Returns(DebugParser_parse(call.info, call.fields, call.data))

CallSessionParse ==
    /\ call.fn = "Session::parse"
    /\ Returns(ParseAndProject(parse(DatagramBytes(call.dgram))))

CallParse ==
    /\ call.fn = "fluss::ipfix::parse"
    /\ Returns(parse(call.input))

\* the outcome of a decoder call: the Value returned, or a panic
DecoderResult(value) ==
    IF value = <<>> THEN [tag |-> "Panic", out |-> <<>>]
    ELSE [tag |-> "Value", out |-> value]

\* an Option returned by a call
OptionResult(opt) ==
    IF opt = <<>> THEN [tag |-> "None", out |-> <<>>]
    ELSE [tag |-> "Some", out |-> opt]

CallValueAs ==
    /\ call.fn = "Value::as_uN"
    /\ Returns(OptionResult(CASE call.bits = 8 -> as_u8(Receiver(call))
                               [] call.bits = 16 -> as_u16(Receiver(call))
                               [] call.bits = 32 -> as_u32(Receiver(call))
                               [] call.bits = 64 -> as_u64(Receiver(call))))

CallParseNumber ==
    /\ call.fn = "parse_number"
    /\ Returns(DecoderResult(parse_number(call.data)))

NextApi ==
    \/ CallParseFieldSpecifier
    \/ CallSessionParseDataSet
    \/ CallIpfixParser
    \/ CallFieldParser
    \/ CallParseNumber
    \/ CallValueAs
    \/ CallDebugParser
    \/ CallSessionParse
    \/ CallParse

SpecApi == InitApi /\ [][NextApi]_vars

----------------------------------------------------------------------------
(* Tasks sharing one Session: each runs the loop of main over packets, and *)
(* the steps of Session::parse are taken one lock operation at a time.     *)

TaskNames == {"a", "b"}

\* the packets the tasks hand to Session::parse
LockPackets ==
    {<<TemplateSet(<<Record(257, FieldsB), Record(256, FieldsA)>>)>>,
     <<TemplateSet(<<Record(256, FieldsB)>>), DataSet(256, Payload(3))>>,
     <<DataSet(256, Payload(4))>>,
     <<DataSet(257, Payload(3)),
       TemplateSet(<<Record(256, FieldsA), Record(257, FieldsA)>>)>>,
     <<OptionsSet, DataSet(256, Payload(2))>>}

\* a variant of RwLock::write() that does not wait for the readers
RwLock_can_write_during_read(lk) == lk.writer = {}

\* RwLock::write() can return: no writer and no reader
RwLock_can_write(lk) == lk.writer = {} /\ lk.readers = {}

\* a variant of RwLock::read() that does not wait for the writer
RwLock_can_read_during_write(lk) == TRUE

\* RwLock::read() can return: no writer
RwLock_can_read(lk) == lk.writer = {}

\* the lock once write() has returned its guard to t
RwLock_write(lk, t) == [lk EXCEPT !.writer = {t}]

\* the lock once read() has returned its guard to t
RwLock_read(lk, t) == [lk EXCEPT !.readers = @ \cup {t}]

\* the lock once t has dropped its write guard
RwLock_drop_write(lk, t) == [lk EXCEPT !.writer = @ \ {t}]

\* a variant in which the read guard outlives Session::parse_data_set (the
\* outputs are produced lazily under the guard)
RwLock_keep_read(lk, t) == lk

\* the lock once t has dropped its read guard
RwLock_drop_read(lk, t) == [lk EXCEPT !.readers = @ \ {t}]

\* a task awaiting socket.recv_from
\* a task at recv_from; length and k are the locals of parse_data_set
\* (the stride and the chunk reached), looked and used are history: the
\* field list found by the lookup and the one each record was decoded with
IdleTask ==
    [pc |-> "recv", sets |-> <<>>, idx |-> 1, rec |-> 1, left |-> 0, torn |-> FALSE,
     length |-> 0, k |-> 1, looked |-> <<>>, used |-> <<>>]

InitLock ==
    /\ LoopAtRest
    /\ templates = EmptyMap
    /\ call = NoCall
    /\ ret = <<>>
    /\ lock = RwLock_new
    /\ tasks = [t \in TaskNames |-> IdleTask]
    /\ stable = EmptyMap

\* recv_from and parse gave a packet; session.parse(&packet) builds the iterator
TaskRecv(t, sets) ==
    /\ tasks[t].pc = "recv"
    /\ tasks' = [tasks EXCEPT ![t] = [IdleTask EXCEPT !.pc = "next", !.sets = sets]]
    /\ UNCHANGED <<templates, lock, stable, LoopVars, apiVars>>

\* the closure of filter_map looks at the next set, or the iterator ends and
\* the loop goes back to recv_from
TaskNext(t) ==
    /\ tasks[t].pc = "next"
    /\ tasks' = [tasks EXCEPT ![t] =
            IF tasks[t].idx > Len(tasks[t].sets) THEN IdleTask
            ELSE IF tasks[t].sets[tasks[t].idx].kind = "TemplateSet"
                 THEN [@ EXCEPT !.pc = "write"]
            ELSE IF tasks[t].sets[tasks[t].idx].kind = "DataSet"
                 THEN [@ EXCEPT !.pc = "read"]
            ELSE [@ EXCEPT !.idx = @ + 1]]
    /\ UNCHANGED <<templates, lock, stable, LoopVars, apiVars>>

\* add_records: let mut templates = self.templates.write();
TaskWriteLock(t) ==
    /\ tasks[t].pc = "write"
    /\ RwLock_can_write(lock)
    /\ lock' = RwLock_write(lock, t)
    /\ tasks' = [tasks EXCEPT ![t] = [@ EXCEPT !.pc = "insert", !.rec = 1]]
    /\ UNCHANGED <<templates, stable, LoopVars, apiVars>>

\* add_records: one turn of `for record in records`
TaskInsert(t) ==
    /\ tasks[t].pc = "insert"
    /\ tasks[t].rec <= Len(tasks[t].sets[tasks[t].idx].records)
    /\ templates' = Insert(templates,
                           tasks[t].sets[tasks[t].idx].records[tasks[t].rec].id,
                           tasks[t].sets[tasks[t].idx].records[tasks[t].rec].fields)
    /\ tasks' = [tasks EXCEPT ![t] = [@ EXCEPT !.rec = @ + 1]]
    /\ UNCHANGED <<lock, stable, LoopVars, apiVars>>

\* add_records returns: the write guard is dropped
TaskAddRecordsReturn(t) ==
    /\ tasks[t].pc = "insert"
    /\ tasks[t].rec > Len(tasks[t].sets[tasks[t].idx].records)
    /\ lock' = RwLock_drop_write(lock, t)
    /\ stable' = templates
    /\ tasks' = [tasks EXCEPT ![t] = [@ EXCEPT !.pc = "next", !.idx = @ + 1]]
    /\ UNCHANGED <<templates, LoopVars, apiVars>>

\* parse_data_set: let templates = self.templates.read();
TaskReadLock(t) ==
    /\ tasks[t].pc = "read"
    /\ RwLock_can_read(lock)
    /\ lock' = RwLock_read(lock, t)
    /\ tasks' = [tasks EXCEPT ![t] = [@ EXCEPT !.pc = "lookup"]]
    /\ UNCHANGED <<templates, stable, LoopVars, apiVars>>

\* parse_data_set: templates.get(&set.id) under the guard, and the stride;
\* a miss returns vec![], chunks(0) panics
TaskLookup(t) ==
    /\ tasks[t].pc = "lookup"
    /\ tasks' = [tasks EXCEPT ![t] =
            IF tasks[t].sets[tasks[t].idx].id \notin DOMAIN templates
            THEN [@ EXCEPT !.pc = "collected", !.left = 0,
                           !.torn = (templates # stable)]
            ELSE [@ EXCEPT
                    !.pc = IF SumLengths(templates[tasks[t].sets[tasks[t].idx].id]) = 0
                           THEN "panicked"
                           ELSE IF tasks[t].sets[tasks[t].idx].data = <<>>
                           THEN "collected"
                           ELSE "chunk",
                    !.left = 0,
                    !.length = SumLengths(templates[tasks[t].sets[tasks[t].idx].id]),
                    !.k = 1,
                    !.looked = <<templates[tasks[t].sets[tasks[t].idx].id]>>,
                    !.used = <<>>,
                    !.torn = (templates # stable)]]
    /\ UNCHANGED <<templates, lock, stable, LoopVars, apiVars>>

\* the task's state after the projector returned r for chunk k, decoded
\* with fields
AfterProjection(task, fields, r) ==
    [task EXCEPT
        !.pc = IF r.tag = "Panic" THEN "panicked"
               ELSE IF task.k = Len(Chunks(task.sets[task.idx].data, task.length))
               THEN "collected"
               ELSE "chunk",
        !.left = @ + Len(r.out),
        !.k = @ + 1,
        !.used = Append(@, fields)]

\* parse_data_set: one chunk of set.data.chunks(length) goes through
\* self.parser.parse(&fields, ..); fields is a reference into the map
\* behind the guard
TaskChunk(t) ==
    /\ tasks[t].pc = "chunk"
    /\ tasks' = [tasks EXCEPT ![t] =
            AfterProjection(tasks[t], templates[tasks[t].sets[tasks[t].idx].id],
                Parser_parse(templates[tasks[t].sets[tasks[t].idx].id],
                             Chunks(tasks[t].sets[tasks[t].idx].data,
                                    tasks[t].length)[tasks[t].k]))]
    /\ UNCHANGED <<templates, lock, stable, LoopVars, apiVars>>

\* parse_data_set returns its Vec: the read guard is dropped; the for loop
\* gets the first output, if any, and awaits publish
TaskParseDataSetReturn(t) ==
    /\ tasks[t].pc = "collected"
    /\ lock' = RwLock_drop_read(lock, t)
    /\ tasks' = [tasks EXCEPT ![t] =
            [@ EXCEPT !.pc = IF tasks[t].left > 0 THEN "publish" ELSE "next",
                      !.idx = @ + 1,
                      !.length = 0, !.k = 1, !.looked = <<>>, !.used = <<>>]]
    /\ UNCHANGED <<templates, stable, LoopVars, apiVars>>

\* publisher.publish(&flow).await returns Ok; the next output is awaited on,
\* or the iterator moves on
TaskPublish(t) ==
    /\ tasks[t].pc = "publish"
    /\ tasks' = [tasks EXCEPT ![t] =
            [@ EXCEPT !.pc = IF tasks[t].left > 1 THEN "publish" ELSE "next",
                      !.left = @ - 1]]
    /\ UNCHANGED <<templates, lock, stable, LoopVars, apiVars>>

NextLock ==
    \E t \in TaskNames :
        \/ \E sets \in LockPackets : TaskRecv(t, sets)
        \/ TaskNext(t)
        \/ TaskWriteLock(t)
        \/ TaskInsert(t)
        \/ TaskAddRecordsReturn(t)
        \/ TaskReadLock(t)
        \/ TaskLookup(t)
        \/ TaskChunk(t)
        \/ TaskParseDataSetReturn(t)
        \/ TaskPublish(t)

SpecLock == InitLock /\ [][NextLock]_vars

----------------------------------------------------------------------------
(* Properties *)

\* the packet at hand holds exactly one set, a DataSet whose id is not a key
\* of the cache the session had when the datagram arrived
OnlyUncachedDataSet ==
    /\ parsed = "Ok"
    /\ Len(packet[1].sets) = 1
    /\ packet[1].sets[1].kind = "DataSet"
    /\ packet[1].sets[1].id \notin DOMAIN templates0

\* C1 (template miss): while and after Session::parse runs over a packet
\* whose only set is a DataSet with an id that is not cached, no output is
\* yielded, the cache equals the cache before the packet, and the loop neither
\* exits nor panics.
C1_TemplateMiss ==
    OnlyUncachedDataSet =>
        /\ emitted = 0
        /\ templates = templates0
        /\ pc \in {"iter", "loopend"}

\* C1 happens: the iterator over such a packet is exhausted, with another
\* template id cached and a DataSet payload that is not empty
C1_Witness ==
    /\ OnlyUncachedDataSet
    /\ pc = "loopend"
    /\ templates0 # EmptyMap
    /\ packet[1].sets[1].data # <<>>
    /\ decoded = <<[idx |-> 1, id |-> packet[1].sets[1].id, fields |-> <<>>,
                    n |-> 0, last |-> <<>>]>>

\* C2 (template resolution and replacement): every DataSet handled was
\* decoded with exactly the field list of the most recent TemplateRecord with
\* its id processed before it in the session (with none when there is no such
\* record), and the cache holds, for every id ever defined, its most recent
\* definition: nothing expires and nothing is removed.
C2_TemplateResolution ==
    /\ templates = lastDef
    /\ \A k \in DOMAIN decoded : decoded[k].fields = decoded[k].last

\* C2 happens: ids 256 and 257 were defined by an earlier datagram, this one
\* redefines 256 and its DataSet 256 yields outputs under the new field list,
\* while 257 is still cached
C2_Witness ==
    /\ DOMAIN templates0 = {256, 257}
    /\ templates0[256] = FieldsA
    /\ \E k \in DOMAIN decoded :
          /\ decoded[k].id = 256
          /\ decoded[k].fields = <<FieldsB>>
          /\ decoded[k].n > 0
    /\ 257 \in DOMAIN templates
    /\ templates[257] = templates0[257]

\* the definition of id T given by the TemplateSets placed before position p
\* of the packet at hand: <<fields>> of the latest one, <<>> when there is none
DefinedBefore(p, T) == LatestIn(RecordsBetween(packet[1].sets, 1, p), T)

\* C3 (ordering inside one datagram): the DataSets of the packet are handled
\* one by one in wire order, none skipped; a DataSet placed after a
\* TemplateSet of the same packet defining its id is decoded under that
\* definition (the latest one before it), and a DataSet whose id is neither
\* defined earlier in the packet nor cached when the datagram arrived yields
\* nothing, even if the packet defines the id further on.
C3_WireOrder ==
    /\ \A k \in DOMAIN decoded :
          /\ packet[1].sets[decoded[k].idx].kind = "DataSet"
          /\ packet[1].sets[decoded[k].idx].id = decoded[k].id
          /\ decoded[k].idx < setIdx
          /\ \A j \in DOMAIN decoded : j < k => decoded[j].idx < decoded[k].idx
          /\ DefinedBefore(decoded[k].idx, decoded[k].id) # <<>>
                => decoded[k].fields = DefinedBefore(decoded[k].idx, decoded[k].id)
          /\ (/\ DefinedBefore(decoded[k].idx, decoded[k].id) = <<>>
              /\ decoded[k].id \notin DOMAIN templates0)
                => decoded[k].fields = <<>> /\ decoded[k].n = 0
    /\ packet # <<>> =>
          \A p \in 1..(setIdx - 1) :
              packet[1].sets[p].kind = "DataSet"
                  => \E k \in DOMAIN decoded : decoded[k].idx = p

\* C3 happens: with an empty cache, a packet made of a TemplateSet defining
\* 256 followed by a DataSet 256 has yielded outputs under that definition
C3_Witness ==
    /\ templates0 = EmptyMap
    /\ packet # <<>>
    /\ Len(packet[1].sets) = 2
    /\ packet[1].sets[1].kind = "TemplateSet"
    /\ packet[1].sets[2].kind = "DataSet"
    /\ Len(decoded) = 1
    /\ decoded[1].idx = 2
    /\ decoded[1].fields = <<packet[1].sets[1].records[1].fields>>
    /\ decoded[1].n = 2

\* C4 (stride consistency): a DataSet decoded under a cached template of
\* stride S >= 1 with a payload of L bytes yields exactly L \div S outputs;
\* the L % S bytes left over yield none.
C4_StrideConsistency ==
    \A k \in DOMAIN decoded :
        (/\ decoded[k].fields # <<>>
         /\ SumLengths(decoded[k].fields[1]) >= 1)
            => decoded[k].n = Len(packet[1].sets[decoded[k].idx].data)
                                  \div SumLengths(decoded[k].fields[1])

\* the version and the length fields of the message header in the buffer
HeaderVersion == buf[1] * 256 + buf[2]

HeaderLength == buf[3] * 256 + buf[4]

\* C5 (bad version): for a datagram whose version field is not 10, parse
\* returns an error and the cache stays as it was when the datagram arrived.
C5_BadVersion ==
    (Len(buf) >= 2 /\ HeaderVersion # 10)
        => parsed = "Err" /\ templates = templates0

\* C6 (malformed datagram is non-fatal): after parse has returned an error
\* for a datagram the cache is unchanged and the receive loop is still
\* running: main has neither returned nor panicked.
C6_MalformedNonFatal ==
    parsed = "Err"
        => templates = templates0 /\ pc \notin {"exited", "panicked"}

\* C7 (publisher failure is non-fatal): after publish has returned an error
\* for a flow, the receive loop is still running.
C7_PublishNonFatal ==
    pubResult = "Err" => pc \notin {"exited", "panicked"}

\* the received message is well framed (version 10, header length equal to
\* the datagram's length) and set i of it is a template set that cannot be
\* parsed: one with no record, or one whose field specifier is cut short
FailingSetAt(i) ==
    /\ dgram.fault = "none"
    /\ i \in DOMAIN dgram.sets
    /\ dgram.sets[i].what \in {"empty_template", "truncated_template"}

\* C8 (whole-packet failure): when some set of the datagram fails to parse,
\* at whatever position, parse returns an error value: no Packet, no panic.
C8_WholePacketFailure ==
    (\E i \in 1..MaxSets : FailingSetAt(i)) => parsed = "Err"

\* C9 (reserved set ids): for a datagram that contains a set with id 0, 1 or
\* 4..255 parse returns an error, and every DataSet of a Packet returned by
\* parse has an id of at least 256.
C9_ReservedSetIds ==
    /\ (/\ dgram.fault = "none"
        /\ \E i \in DOMAIN dgram.sets : dgram.sets[i].sid \in {0, 1} \cup 4..255)
            => parsed = "Err"
    /\ parsed = "Ok" =>
          \A i \in DOMAIN packet[1].sets :
              packet[1].sets[i].kind = "DataSet" => packet[1].sets[i].id >= 256

\* C10 (trailing bytes): for a datagram longer than the length its header
\* gives (a length that covers the header), parse returns an error value.
C10_TrailingBytes ==
    (Len(buf) >= 16 /\ HeaderLength >= 16 /\ Len(buf) > HeaderLength)
        => parsed = "Err"

\* the 16-bit field id on the wire of a parse_field_specifier call
WireFieldId == call.input[1] * 256 + call.input[2]

\* C11 (enterprise bit): parse_field_specifier on an input that holds an id
\* and a length reads a 4-byte enterprise_id exactly when bit 15 of the wire
\* id is set (0x8000 included) and leaves it absent otherwise, and the id it
\* stores is the wire id with bit 15 cleared, a value in 0..0x7FFF.
C11_EnterpriseBit ==
    (call.fn = "parse_field_specifier" /\ ret # <<>> /\ Len(call.input) >= 4) =>
        /\ (WireFieldId >= 32768 /\ Len(call.input) >= 8) =>
              /\ ret[1].tag = "Ok"
              /\ ret[1].val.enterprise_id # <<>>
              /\ ret[1].rest = Drop(call.input, 8)
        /\ WireFieldId < 32768 =>
              /\ ret[1].tag = "Ok"
              /\ ret[1].val.enterprise_id = <<>>
              /\ ret[1].rest = Drop(call.input, 4)
        /\ ret[1].tag = "Ok" =>
              /\ ret[1].val.id = WireFieldId % 32768
              /\ ret[1].val.id \in 0..32767

\* task t holds the lock on the template cache, shared or exclusive
HoldsLock(t) == t \in lock.writer \cup lock.readers

\* C12 (no lock across a suspension): a task that is awaiting socket receive
\* or Publisher::publish holds no lock on the template cache, neither the
\* shared nor the exclusive one.
C12_NoLockWhileSuspended ==
    \A t \in DOMAIN tasks :
        tasks[t].pc \in {"recv", "publish"} => ~HoldsLock(t)

\* C12 happens: a task is awaiting publish for an output it produced under
\* the shared lock, while the other task holds the exclusive lock
C12_Witness ==
    \E t \in DOMAIN tasks, u \in DOMAIN tasks :
        /\ tasks[t].pc = "publish"
        /\ tasks[t].left > 0
        /\ lock.writer = {u}
        /\ tasks[u].pc = "insert"

\* task t is inside the loop of add_records: at least one record of the
\* set is installed and at least one is not
MidInstall(t) ==
    /\ tasks[t].pc = "insert"
    /\ tasks[t].rec > 1
    /\ tasks[t].rec <= Len(tasks[t].sets[tasks[t].idx].records)

\* C13 (atomic installation of a template set): a task installing a set
\* holds the exclusive lock, alone, from before the first record to after
\* the last; a task that has the shared lock finds the cache as it was when
\* the last installation ended, so no lookup ever sees a set half installed.
C13_AtomicInstall ==
    \A t \in DOMAIN tasks :
        /\ tasks[t].pc = "insert" => lock.writer = {t} /\ lock.readers = {}
        /\ tasks[t].pc \in {"lookup", "chunk", "collected"} =>
              /\ t \in lock.readers
              /\ templates = stable
              /\ \A u \in DOMAIN tasks : ~MidInstall(u)
        /\ ~tasks[t].torn

\* C13 happens: one task is half way through a set of two records, which
\* has changed the cache, while the other task is at templates.read() for a
\* DataSet lookup
C13_Witness ==
    \E t \in DOMAIN tasks, u \in DOMAIN tasks :
        /\ MidInstall(t)
        /\ templates # stable
        /\ tasks[u].pc = "read"

\* C14 (variable-length templates): when the cached template of a DataSet
\* has a field of length 0xFFFF and the payload holds k >= 1 back-to-back
\* records, each with its own length prefixes, Session::parse_data_set
\* returns k outputs, one per record.
C14_VariableLength ==
    (/\ call.fn = "Session::parse_data_set"
     /\ ret # <<>>
     /\ \E i \in DOMAIN call.tpl[call.set.id] : call.tpl[call.set.id][i].length = 65535)
        => ret[1].tag = "Ok" /\ Len(ret[1].outs) = call.records

\* a projector call on a whole record of the template
WholeRecord(c) ==
    /\ c.fn = "IpfixParser::parse"
    /\ Len(c.data) = Len(RecordBytes(c.fields, c.values))

\* a projector call on a whole record of a two-field template with the ids
\* a and b, in either order
BothFields(c, a, b) ==
    /\ WholeRecord(c)
    /\ Len(c.fields) = 2
    /\ {c.fields[1].id, c.fields[2].id} = {a, b}
    /\ a # b

\* the value the exporter put in the field with the id
ValueOf(c, id) == c.values[CHOOSE i \in 1..Len(c.fields) : c.fields[i].id = id]

\* C15: for every pair of IE 21 (end) and IE 22 (start) values a Flow is
\* emitted, and its flow_age is end - start when end >= start and 0 when
\* end < start.
C15_FlowAgeSaturating ==
    (BothFields(call, IPFIX_FLOW_END_SYSUPTIME, IPFIX_FLOW_START_SYSUPTIME)
        /\ call.fields[1].length = 8 /\ call.fields[2].length = 8
        /\ ret # <<>>)
    => /\ ret[1].tag = "Some"
       /\ ret[1].out[1].flow_age =
            IF ValueOf(call, IPFIX_FLOW_END_SYSUPTIME)
                >= ValueOf(call, IPFIX_FLOW_START_SYSUPTIME)
            THEN ValueOf(call, IPFIX_FLOW_END_SYSUPTIME)
                    - ValueOf(call, IPFIX_FLOW_START_SYSUPTIME)
            ELSE 0

\* the first field of the template with a width its decoder or its slot
\* does not take, 0 when there is none
FirstBadWidth(fields) ==
    IF \E i \in 1..Len(fields) : fields[i] \in BadWidthFields
    THEN CHOOSE i \in 1..Len(fields) :
            /\ fields[i] \in BadWidthFields
            /\ \A j \in 1..(i - 1) : fields[j] \notin BadWidthFields
    ELSE 0

\* C16: when a recognised IE has a template length its decoder cannot
\* handle, the projector stops at that field and still emits the Flow
\* populated by the fields before it (here IE 11 or nothing), every other
\* slot holding its default.
C16_DecodeErrorStops ==
    (WholeRecord(call) /\ FirstBadWidth(call.fields) # 0 /\ ret # <<>>)
    => /\ ret[1].tag = "Some"
       /\ ret[1].out[1] =
            [Fluss(FlowLocals) EXCEPT !.dst_port =
                IF /\ FirstBadWidth(call.fields) = 2
                   /\ call.fields[1].id = IPFIX_DST_PORT
                THEN call.values[1] ELSE 0]

\* the first field of the template FieldParser cannot decode from the
\* data: its bytes are not all there, or it is registered with
\* parse_number at a width other than 1, 2, 4, 8; 0 when there is none
Undecodable(c, i) ==
    \/ Len(RecordBytes(SubSeq(c.fields, 1, i), SubSeq(c.values, 1, i))) > Len(c.data)
    \/ /\ c.fields[i].id \in DOMAIN c.parsers
       /\ c.parsers[c.fields[i].id] = "parse_number"
       /\ c.fields[i].length \notin {1, 2, 4, 8}

FirstUndecodable(c) ==
    IF \E i \in 1..Len(c.fields) : Undecodable(c, i)
    THEN CHOOSE i \in 1..Len(c.fields) :
            Undecodable(c, i) /\ \A j \in 1..(i - 1) : ~Undecodable(c, j)
    ELSE 0

\* C17: when a field's bytes cannot be decoded (data shorter than the
\* field length, or a registered number decoder at a width other than
\* 1, 2, 4, 8), FieldParser still returns the RecordSet, with that field
\* recorded as Value::Unknown.
C17_FieldParserDecodeErrors ==
    (call.fn = "FieldParser::parse" /\ FirstUndecodable(call) # 0 /\ ret # <<>>)
    => /\ ret[1].tag = "Some"
       /\ Len(ret[1].out[1].records) >= FirstUndecodable(call)
       /\ ret[1].out[1].records[FirstUndecodable(call)].value.variant = "Unknown"

\* the Flow slot an Information Element fills, "none" for the ids that
\* fill none (IE 21 and IE 22 only enter flow_age)
SlotOf(id) ==
    CASE id \in {1, 23} -> "bytes"
      [] id \in {2, 24} -> "packets"
      [] id = 256 -> "ethernet_type"
      [] id = 56 -> "src_mac"
      [] id = 81 -> "dst_mac"
      [] id = 8 -> "src_addr"
      [] id = 12 -> "dst_addr"
      [] id = 9 -> "src_net"
      [] id = 13 -> "dst_net"
      [] id = 7 -> "src_port"
      [] id = 11 -> "dst_port"
      [] id = 58 -> "vlan_id"
      [] id = 59 -> "post_vlan_id"
      [] id = 225 -> "post_nat_src_addr"
      [] id = 226 -> "post_nat_dst_addr"
      [] id = 227 -> "post_napt_src_port"
      [] id = 228 -> "post_napt_dst_port"
      [] id = 15 -> "next_hop_addr"
      [] OTHER -> "none"

AddrSlots ==
    {"src_addr", "dst_addr", "post_nat_src_addr", "post_nat_dst_addr", "next_hop_addr"}

MacSlots == {"src_mac", "dst_mac"}

FlowSlots ==
    {"bytes", "packets", "ethernet_type", "src_net", "dst_net", "src_port",
     "dst_port", "vlan_id", "post_vlan_id", "post_napt_src_port",
     "post_napt_dst_port"} \cup AddrSlots \cup MacSlots

\* the default of a slot: 0, 127.0.0.1 or FF:FF:FF:FF:FF:FF
SlotDefault(slot) ==
    IF slot \in AddrSlots THEN <<127, 0, 0, 1>>
    ELSE IF slot \in MacSlots THEN <<255, 255, 255, 255, 255, 255>>
    ELSE 0

\* what a slot holds once the value v of the field is decoded into it
SlotValue(slot, field, v) ==
    IF slot \in AddrSlots \cup MacSlots THEN EncN(v, field.length)
    ELSE IF field.length = 1 THEN v % 256
    ELSE v

\* the number of fields whose bytes are all in the data: the iteration
\* stops at the first field longer than the bytes left
DecodedFields(c) ==
    CHOOSE n \in 0..Len(c.fields) :
        /\ Len(RecordBytes(SubSeq(c.fields, 1, n), SubSeq(c.values, 1, n))) <= Len(c.data)
        /\ n < Len(c.fields) =>
            Len(RecordBytes(SubSeq(c.fields, 1, n + 1), SubSeq(c.values, 1, n + 1)))
                > Len(c.data)

\* the slot after the projection: the decoded value of its field, or its
\* default
ExpectedSlot(c, slot) ==
    IF \E i \in 1..DecodedFields(c) : SlotOf(c.fields[i].id) = slot
    THEN SlotValue(slot,
            c.fields[CHOOSE i \in 1..DecodedFields(c) : SlotOf(c.fields[i].id) = slot],
            c.values[CHOOSE i \in 1..DecodedFields(c) : SlotOf(c.fields[i].id) = slot])
    ELSE SlotDefault(slot)

\* a projector call with a template of table-width and unrecognised
\* fields in which no two fields fill the same slot
TableTemplate(c) ==
    /\ c.fn = "IpfixParser::parse"
    /\ \A i \in 1..Len(c.fields) : c.fields[i] \in TableFields \cup {UnlistedField}
    /\ \A i, j \in 1..Len(c.fields) :
            (i # j /\ SlotOf(c.fields[i].id) # "none")
                => SlotOf(c.fields[i].id) # SlotOf(c.fields[j].id)

\* C18: for a template whose recognised fields have their table widths,
\* the projector emits exactly one Flow; every slot whose field lies
\* before the first field longer than the bytes left holds the decoded
\* value, every other slot its default; unrecognised ids change no slot.
C18_ProjectionWithDefaults ==
    (TableTemplate(call) /\ ret # <<>>)
    => /\ ret[1].tag = "Some"
       /\ Len(ret[1].out) = 1
       /\ \A slot \in FlowSlots : ret[1].out[1][slot] = ExpectedSlot(call, slot)

\* C19: when a template contains both IE 1 and IE 23 (IE 2 and IE 24), the
\* Flow's bytes (packets) slot holds the IE 23 (IE 24) value, whichever of
\* the two fields comes first in the template.
C19_OutOverwritesIn ==
    /\ (BothFields(call, IPFIX_BYTES_IN, IPFIX_BYTES_OUT) /\ ret # <<>>)
        => /\ ret[1].tag = "Some"
           /\ ret[1].out[1].bytes = ValueOf(call, IPFIX_BYTES_OUT)
    /\ (BothFields(call, IPFIX_PACKETS_IN, IPFIX_PACKETS_OUT) /\ ret # <<>>)
        => /\ ret[1].tag = "Some"
           /\ ret[1].out[1].packets = ValueOf(call, IPFIX_PACKETS_OUT)

\* the number the first `width` bytes-worth of v stand for (v < 2^31)
Truncated(v, width) ==
    IF width = 1 THEN v % 256 ELSE IF width = 2 THEN v % 65536 ELSE v

NumberVariant(width) ==
    CASE width = 1 -> "U8" [] width = 2 -> "U16" [] width = 4 -> "U32" [] width = 8 -> "U64"

\* C20: parse_number is total: 1, 2, 4 or 8 bytes give the big-endian
\* value as U8, U16, U32 or U64; any other length gives an error value,
\* never an abort.
C20_ParseNumberTotal ==
    (call.fn = "parse_number" /\ ret # <<>>)
    => /\ ret[1].tag # "Panic"
       /\ call.width \in {1, 2, 4, 8} =>
            ret[1] = [tag |-> "Value",
                      out |-> <<[variant |-> NumberVariant(call.width),
                                 val |-> Truncated(call.value, call.width)]>>]
       /\ call.width \notin {1, 2, 4, 8} => ret[1].tag = "Err"

\* the width in bits of an integer variant, 0 for the other variants
BitsOf(variant) ==
    CASE variant = "U8" -> 8 [] variant = "U16" -> 16
      [] variant = "U32" -> 32 [] variant = "U64" -> 64 [] OTHER -> 0

\* C21: for an integer Value of width w, as_uN returns Some of the same
\* number when N >= w and None when N < w; for every other Value as_u8,
\* as_u16, as_u32 and as_u64 return None.
C21_CoercionMonotone ==
    (call.fn = "Value::as_uN" /\ ret # <<>>)
    => IF /\ BitsOf(Receiver(call).variant) # 0
          /\ call.bits >= BitsOf(Receiver(call).variant)
       THEN ret[1] = [tag |-> "Some", out |-> <<Receiver(call).val>>]
       ELSE ret[1] = [tag |-> "None", out |-> <<>>]

\* a U8 widened by as_u16, a U32 refused by as_u16 and a MAC address
\* refused by as_u64 (each is reached; the first is the one named here)
C21_Witness ==
    /\ call.fn = "Value::as_uN"
    /\ "number" \in DOMAIN call
    /\ call.number = [variant |-> "U8", val |-> 255]
    /\ call.bits = 16
    /\ ret = <<[tag |-> "Some", out |-> <<255>>]>>

\* the receive loop has consumed the whole sequence of a packet made only
\* of TemplateSets and OptionsSets
TemplatesOnlyDone ==
    /\ pc = "loopend"
    /\ packet # <<>>
    /\ \A i \in 1..Len(packet[1].sets) :
            packet[1].sets[i].kind \in {"TemplateSet", "OptionsSet"}

\* the TemplateRecords of the packet, in wire order
PacketRecords == RecordsBetween(packet[1].sets, 1, Len(packet[1].sets) + 1)

\* C22: a packet made only of TemplateSets and OptionsSets emits no output;
\* after it the cache maps each template id of the packet to the fields of
\* its last record in the packet and every other entry is as it was (so an
\* OptionsSet changes nothing).
C22_TemplateSetEffect ==
    TemplatesOnlyDone
    => /\ emitted = 0
       /\ DOMAIN templates =
            DOMAIN templates0 \cup {PacketRecords[i].id : i \in DOMAIN PacketRecords}
       /\ \A T \in DOMAIN templates :
            templates[T] = IF LatestIn(PacketRecords, T) # <<>>
                           THEN LatestIn(PacketRecords, T)[1]
                           ELSE templates0[T]

\* a packet that defines template 256 twice, differently, while template
\* 257 is cached: the second definition is the one cached afterwards
C22_Witness ==
    /\ TemplatesOnlyDone
    /\ 257 \in DOMAIN templates0
    /\ LatestIn(PacketRecords, 257) = <<>>
    /\ Len(PacketRecords) = 2
    /\ PacketRecords[1].id = 256 /\ PacketRecords[2].id = 256
    /\ PacketRecords[1].fields # PacketRecords[2].fields
    /\ templates[256] = PacketRecords[2].fields

\* a packet holding an OptionsSet and nothing else has been consumed
C22_OptionsOnly ==
    /\ TemplatesOnlyDone
    /\ packet[1].sets # <<>>
    /\ \A i \in 1..Len(packet[1].sets) : packet[1].sets[i].kind = "OptionsSet"
    /\ templates0 # EmptyMap

\* C23: for every field list and every data slice, a slice shorter than
\* the template's stride included, DebugParser(inner).parse returns what
\* inner.parse returns on the same arguments.
C23_DebugParserTransparent ==
    (call.fn = "DebugParser::parse" /\ ret # <<>>)
    => ret[1] = IpfixParser_parse(call.fields, call.data)

\* task u is at, or inside, add_records for a TemplateSet that gives
\* template T a field list other than fields
Replacing(u, T, fields) ==
    /\ tasks[u].pc \in {"write", "insert"}
    /\ \E i \in DOMAIN tasks[u].sets[tasks[u].idx].records :
            /\ tasks[u].sets[tasks[u].idx].records[i].id = T
            /\ tasks[u].sets[tasks[u].idx].records[i].fields # fields

\* C24: under concurrent Session::parse calls on one session, every record
\* of a DataSet is split and decoded with the field list, and the stride,
\* that its lookup found, never with a mixture of old and new.
C24_OneDefinitionPerDataSet ==
    \A t \in DOMAIN tasks :
        \A i \in DOMAIN tasks[t].used :
            /\ tasks[t].used[i] = tasks[t].looked[1]
            /\ tasks[t].length = SumLengths(tasks[t].used[i])

\* one task has decoded the first record of a DataSet and has a chunk left
\* while the other is at templates.write() with another definition of the
\* same template
C24_Witness ==
    \E t \in DOMAIN tasks, u \in DOMAIN tasks :
        /\ t # u
        /\ tasks[t].pc = "chunk"
        /\ Len(tasks[t].used) >= 1
        /\ tasks[u].pc = "write"
        /\ Replacing(u, tasks[t].sets[tasks[t].idx].id, tasks[t].looked[1])

\* C25: the cache holds the TemplateSets of the packet that lie before the
\* position the consumer has driven the sequence to, and no other: a
\* sequence not yet consumed has changed nothing, and when the loop leaves
\* on a publish error the TemplateSets after the last consumed output are
\* not installed.
C25_InstallOnConsumption ==
    packet # <<>>
    => /\ templates = DefAfter(templates0, RecordsBetween(packet[1].sets, 1, setIdx))
       /\ (pc = "iter" /\ emitted = 0 /\ setIdx = 1) => templates = templates0

\* the loop has left on a publish error with a TemplateSet still ahead
\* whose installation would have changed the cache
C25_Witness ==
    /\ pc = "exited"
    /\ pubResult = "Err"
    /\ packet # <<>>
    /\ \E i \in setIdx..Len(packet[1].sets) : packet[1].sets[i].kind = "TemplateSet"
    /\ templates # DefAfter(templates0,
                            RecordsBetween(packet[1].sets, 1, Len(packet[1].sets) + 1))

\* C26: when the cached template of a DataSet has total field length 0 (no
\* fields, or only zero-length fields), Session::parse on that DataSet
\* completes without aborting, for an empty and for a non-empty payload.
C26_ZeroStrideHarmless ==
    (call.fn = "Session::parse" /\ SumLengths(call.fields) = 0 /\ ret # <<>>)
    => ret[1].tag = "Ok"

\* C27: for a message header length below 4, or a set length below 4 in a
\* template, options or data set, parse returns an error value for the
\* datagram: the subtraction length - 4 neither aborts nor lets the
\* datagram through.
C27_ShortLengthRejected ==
    (call.fn = "fluss::ipfix::parse" /\ ret # <<>>) => ret[1].tag = "Err"

============================================================================
